---- MODULE Spec2Model ----
(***************************************************************************)
(* Model of the step orchestration of MegatronCLIPModel                    *)
(* (nemo/collections/multimodal/models/clip/megatron_clip_models.py):      *)
(* construction, setup, the train / validation / test steps with the       *)
(* schedule selection and the gradient synchronisation that follows the    *)
(* schedule.  One rank is modelled; its pipeline stage, the configuration   *)
(* and the sizes of the batches its data loaders deliver are arbitrary.     *)
(***************************************************************************)
EXTENDS Integers, Sequences, FiniteSets, TLC

\* ------------------------------------------------------------------ bounds
MaxPipeline == 3
MaxVirtual == 1
MaxTensor == 2
MaxMicroBatch == 2
MaxDataParallel == 2
MaxGlobalBatch == 3
MaxValidationSteps == 2
MaxStages == 2
MaxSeed == 2
MaxAccumulate == 2
MaxParams == 2

\* ------------------------------------------------------- option encodings
\* An option that is absent from the configuration (cfg.get returns its
\* default, None where no other default is given).
None == -1

OptInt(max) == {None} \cup (0 .. max)

\* cfg.get(key, default)
CfgGet(value, default) == IF value = None THEN default ELSE value

\* Python truthiness of an optional integer: None and 0 are falsy.
Truthy(value) == value # None /\ value # 0

NO_PIPELINING == "forward_backward_no_pipelining"
WITHOUT_INTERLEAVING == "forward_backward_pipelining_without_interleaving"
WITH_INTERLEAVING == "_forward_backward_pipelining_with_interleaving"
Strategies == {NO_PIPELINING, WITHOUT_INTERLEAVING, WITH_INTERLEAVING}

Precisions == {"32", "16", "bf16", "64"}

\* ------------------------------------------------------------------ state
VARIABLES
    cfg,            \* the model configuration (self.cfg) and the optimizer kind
    trainer,        \* trainer.accumulate_grad_batches, trainer.precision
    parallel_state, \* data-parallel world size and this rank's pipeline rank
    phase,          \* "new", "built", "ready", "config_error"
    model,          \* self.model: a single module or a list of stage modules
    megatron_amp_o2,    \* self.megatron_amp_o2
    autocast_dtype,     \* self.autocast_dtype
    num_micro_batches,  \* self._num_micro_batches
    batch_size_on_rank, \* self._global_batch_size_on_this_data_parallel_rank
    kind,           \* step in progress: "none", "train", "validation", "test"
    pc,             \* position inside the step
    current_batch_size,  \* samples in the batch the step received
    batch_for_pipeline,  \* "unset", "None" or "inputs"
    fwd_bwd_function,    \* strategy chosen by the step, "unset" outside steps
    custom_sync_context_handler,
    forward_only,
    grad_scaler,         \* "unset", "None" or "scaler"
    micro_batches_done,  \* micro-batches the schedule has processed
    error,          \* the exception that ended the step, "none" otherwise
    calls,          \* calls the step has made so far, in order
    losses_reduced_per_micro_batch, \* the schedule's result on this rank
    loss_mean,      \* training_step: the step loss
    loss_with_batch_size_list,  \* validation_step: the value returned
    outputs,        \* validation outputs the trainer collected this epoch
    averaged_metrics,   \* validation_epoch_end: the metric
    broadcast_src,  \* source rank of the last broadcast, None before it
    seed,           \* the random seed the parameters are initialised from
    stage_state,    \* the parameter state of each module of self.model
    virtual_pipeline_rank,  \* parallel_state: the active virtual stage
    checkpoint,     \* the checkpoint mapping the trainer last wrote
    saved,          \* the configuration and the stage states last saved
    hook,           \* the last checkpoint hook call: argument and outcome
    plan,           \* what the trainer has started on every rank of the job
    peers,          \* the ranks of the job, one for each pipeline stage
    params,         \* the parameters of each module: mark and gradient buffers
    all_reduces     \* the all-reduce calls of allreduce_sequence_parallel_gradients

vars == <<cfg, trainer, parallel_state, phase, model, megatron_amp_o2,
          autocast_dtype, num_micro_batches, batch_size_on_rank, kind, pc,
          current_batch_size, batch_for_pipeline, fwd_bwd_function,
          custom_sync_context_handler, forward_only, grad_scaler,
          micro_batches_done, error, calls,
          losses_reduced_per_micro_batch, loss_mean,
          loss_with_batch_size_list, outputs, averaged_metrics,
          broadcast_src, seed, stage_state, virtual_pipeline_rank,
          checkpoint, saved, hook, plan, peers, params, all_reduces>>

object_vars == <<cfg, trainer, parallel_state>>
built_vars == <<model, megatron_amp_o2, autocast_dtype>>
setup_vars == <<num_micro_batches, batch_size_on_rank>>
step_vars == <<kind, pc, current_batch_size, batch_for_pipeline,
               fwd_bwd_function, custom_sync_context_handler, forward_only,
               grad_scaler, micro_batches_done, error, calls>>
result_vars == <<losses_reduced_per_micro_batch, loss_mean,
                 loss_with_batch_size_list, outputs, averaged_metrics,
                 broadcast_src>>
stage_vars == <<stage_state, virtual_pipeline_rank>>
hook_vars == <<seed, checkpoint, saved, hook>>
peer_vars == <<plan, peers>>
grad_vars == <<params, all_reduces>>

\* --------------------------------------------------------- configurations
Configs ==
    [pipeline_model_parallel_size : {None} \cup (1 .. MaxPipeline),
     virtual_pipeline_model_parallel_size : OptInt(MaxVirtual),
     tensor_model_parallel_size : {None} \cup (1 .. MaxTensor),
     sequence_parallel : BOOLEAN,
     megatron_amp_O2 : BOOLEAN,
     with_distributed_adam : BOOLEAN,
     precision : Precisions,
     micro_batch_size : 1 .. MaxMicroBatch,
     global_batch_size : 1 .. MaxGlobalBatch,
     drop_last : BOOLEAN]

\* parallel_state.get_pipeline_model_parallel_world_size()
PipelineWorldSize(c) == CfgGet(c.pipeline_model_parallel_size, 1)

\* parallel_state.is_pipeline_first_stage(ignore_virtual=True)
IsPipelineFirstStage(c, ps) == ps.pipeline_rank = 0

\* parallel_state.is_pipeline_last_stage(ignore_virtual=True)
IsPipelineLastStage(c, ps) == ps.pipeline_rank = PipelineWorldSize(c) - 1


\* ------------------------------------------------------- parameter state
\* The parameter keys of a stage module (CLIPModel: the two encoders).
ExpectedKeys == {"vision_encoder", "text_encoder"}

\* A parameter key no stage module has.
UnexpectedKey == "unexpected"

\* The state of stage i of a model initialised from seed s: each parameter
\* holds a value of its own stage and seed.
FreshState(i, s) == [p \in ExpectedKeys |-> [stage |-> i, seed |-> s]]

\* The states of the n modules build_model returns.
FreshStages(n, s) == [i \in 1 .. n |-> FreshState(i - 1, s)]

\* isinstance(self.model, list) without the test.
IsInstanceList_Always(m) == TRUE

\* isinstance(self.model, list)
IsInstanceList(m) == m.is_list

\* __init__ wraps each module in a Float16Module, which has the attribute
\* `module`, only under megatron_amp_O2.
HasModuleAttribute(o2) == o2

\* f'model{i}'
ModelKey(i) == "model" \o ToString(i)

\* The checkpoint mapping as the trainer hands it to on_save_checkpoint:
\* its own entries only.
TrainerCheckpoint ==
    [k \in {"state_dict"} |-> [p \in ExpectedKeys |-> [stage |-> None, seed |-> None]]]

\* mapping[key] = value
Put(mapping, key, value) ==
    [k \in DOMAIN mapping \cup {key} |-> IF k = key THEN value ELSE mapping[k]]

\* state_dict_for_save_checkpoint(): the module's parameters by key.
StateDictForSaveCheckpoint(state) == state

\* load_state_dict(entry, strict=True): the keys the module and the entry
\* share are copied ...
LoadStateDict(state, entry) ==
    [p \in DOMAIN state |-> IF p \in DOMAIN entry THEN entry[p] ELSE state[p]]

\* ... and a missing or an unexpected key then raises.
StrictRaises(state, entry) == DOMAIN entry # DOMAIN state

RECURSIVE SaveStages(_, _, _, _)
\* on_save_checkpoint: the loop from stage i on and the statement after it.
\* st holds the virtual rank, the checkpoint, the states captured (stage,
\* virtual rank at the capture) and the exception raised.
SaveStages(i, stages, o2, st) ==
    IF i = Len(stages)
    THEN [st EXCEPT !.rank = 0]
    ELSE IF ~HasModuleAttribute(o2)
    THEN [st EXCEPT !.rank = i, !.error = "AttributeError"]
    ELSE SaveStages(i + 1, stages, o2,
             [st EXCEPT !.rank = i,
                        !.checkpoint = Put(@, ModelKey(i),
                                           StateDictForSaveCheckpoint(stages[i + 1])),
                        !.events = Append(@, <<i, i>>)])

RECURSIVE LoadStages(_, _, _, _)
\* on_load_checkpoint: the loop from stage i on and the statement after it.
\* st holds the virtual rank, the stage states, the entries loaded (stage,
\* virtual rank at the load) and the exception raised.
LoadStages(i, ck, o2, st) ==
    IF i = Len(st.stages)
    THEN [st EXCEPT !.rank = 0]
    ELSE IF ~HasModuleAttribute(o2)
    THEN [st EXCEPT !.rank = i, !.error = "AttributeError"]
    ELSE IF ModelKey(i) \notin DOMAIN ck
    THEN [st EXCEPT !.rank = i, !.error = "KeyError"]
    ELSE IF StrictRaises(st.stages[i + 1], ck[ModelKey(i)])
    THEN [st EXCEPT !.rank = i, !.error = "RuntimeError",
                    !.stages[i + 1] = LoadStateDict(@, ck[ModelKey(i)])]
    ELSE LoadStages(i + 1, ck, o2,
             [st EXCEPT !.rank = i,
                        !.stages[i + 1] = LoadStateDict(@, ck[ModelKey(i)]),
                        !.events = Append(@, <<i, i>>)])

\* The stage entries of a checkpoint mapping.
StageKeys(ck) == DOMAIN ck \ DOMAIN TrainerCheckpoint

\* mapping without the entry key.
Without(mapping, key) == [k \in DOMAIN mapping \ {key} |-> mapping[k]]

\* The checkpoints on_load_checkpoint may be handed: the one written last,
\* or that one with a stage entry lost, with a parameter lost from a stage
\* entry, or with a parameter added to a stage entry.
LoadInputs(ck) ==
    {ck}
    \cup {Without(ck, k) : k \in StageKeys(ck)}
    \cup {[ck EXCEPT ![k] = Without(@, p)] :
              k \in StageKeys(ck), p \in ExpectedKeys}
    \cup {[ck EXCEPT ![k] = Put(@, UnexpectedKey, [stage |-> None, seed |-> None])] :
              k \in StageKeys(ck)}

\* No checkpoint hook has been called.
\* No step is in progress on the ranks of the job.
NoPlan == [kind |-> "none", steps |-> 0]

NoHook ==
    [name |-> "none", error |-> "none", events |-> << >>,
     arg |-> TrainerCheckpoint, stage_state |-> << >>, rank |-> 0]

\* Configurations of the checkpoint runs: pipeline depth, virtual size and
\* megatron_amp_O2 vary, what the hooks do not read is fixed.
CheckpointConfigs ==
    [pipeline_model_parallel_size : {None, 2},
     virtual_pipeline_model_parallel_size : OptInt(MaxStages),
     tensor_model_parallel_size : {None},
     sequence_parallel : {FALSE},
     megatron_amp_O2 : BOOLEAN,
     with_distributed_adam : {FALSE},
     precision : {"bf16"},
     micro_batch_size : {1},
     global_batch_size : {1},
     drop_last : {FALSE}]

\* ------------------------------------------------------------ construction
\* _validate_trainer: raises when the trainer accumulates gradient batches.
ValidateTrainerRaises(t) == t.accumulate_grad_batches > 1

\* __init__: the guard on virtual pipelining without megatron_amp_O2.
VirtualWithoutO2Raises(c) ==
    ~c.megatron_amp_O2 /\ Truthy(c.virtual_pipeline_model_parallel_size)

\* build_model returns a list of modules: one per virtual stage when the
\* pipeline world size exceeds 1 and a virtual size is given, else one.
\* __init__ unwraps the list when no virtual size is configured.
BuildModel(c) ==
    LET vp == c.virtual_pipeline_model_parallel_size
        built == IF PipelineWorldSize(c) > 1 /\ vp # None THEN vp ELSE 1
    IN  IF vp = None
        THEN [is_list |-> FALSE, len |-> 1]
        ELSE [is_list |-> TRUE, len |-> built]

\* The compute dtype with float for every precision not listed.
AutocastDtype_DefaultFloat(precision) ==
    CASE precision = "16" -> "half"
      [] precision = "bf16" -> "bfloat16"
      [] OTHER -> "float"

\* __init__: the compute dtype for the trainer precision, "error" otherwise.
AutocastDtype(precision) ==
    CASE precision = "32" -> "float"
      [] precision = "16" -> "half"
      [] precision = "bf16" -> "bfloat16"
      [] OTHER -> "error"

\* MegatronCLIPModel.__init__
Construct ==
    /\ phase = "new"
    /\ IF ValidateTrainerRaises(trainer) \/ VirtualWithoutO2Raises(cfg)
       THEN /\ phase' = "config_error"
            /\ UNCHANGED <<built_vars, stage_state>>
       ELSE /\ megatron_amp_o2' = cfg.megatron_amp_O2
            /\ model' = BuildModel(cfg)
            /\ stage_state' = FreshStages(BuildModel(cfg).len, seed)
            /\ IF AutocastDtype(trainer.precision) = "error"
               THEN /\ phase' = "config_error"
                    /\ autocast_dtype' = "unset"
               ELSE /\ phase' = "built"
                    /\ autocast_dtype' = AutocastDtype(trainer.precision)
    /\ UNCHANGED <<object_vars, setup_vars, step_vars, result_vars,
                   virtual_pipeline_rank, hook_vars, peer_vars, grad_vars>>

\* ------------------------------------------------------------------ setup
\* setup: micro-batches per rank per step (floor division).
NumMicroBatches(c, ps) ==
    c.global_batch_size \div (c.micro_batch_size * ps.data_parallel_world_size)

\* MegatronCLIPModel.setup
Setup ==
    /\ phase = "built"
    /\ phase' = "ready"
    /\ num_micro_batches' = NumMicroBatches(cfg, parallel_state)
    /\ batch_size_on_rank' = NumMicroBatches(cfg, parallel_state) * cfg.micro_batch_size
    /\ virtual_pipeline_rank' =
          IF PipelineWorldSize(cfg) > 1 /\ IsInstanceList(model)
          THEN 0
          ELSE virtual_pipeline_rank
    /\ UNCHANGED <<object_vars, built_vars, step_vars, result_vars,
                   stage_state, hook_vars, peer_vars, grad_vars>>

\* ----------------------------------------------------------- data loaders
\* setup_training_data / setup_validation_data pass drop_last from the
\* configuration; setup_test_data does not pass it (the loader keeps an
\* incomplete trailing batch).
LoaderDropsLast(k, c) == IF k = "test" THEN FALSE ELSE c.drop_last

\* Sizes of the batches a loader of batch size `full` can deliver.
LoaderBatchSizes(k, c, full) ==
    {full} \cup (IF LoaderDropsLast(k, c) THEN {} ELSE 1 .. (full - 1))

\* ------------------------------------------------------- step: selections
\* _get_fwd_bwd_function with the depth test off by one (>= 1 for > 1).
GetFwdBwdFunction_AtLeastOne(c) ==
    IF CfgGet(c.pipeline_model_parallel_size, 1) >= 1
    THEN IF c.virtual_pipeline_model_parallel_size # None
         THEN WITH_INTERLEAVING
         ELSE WITHOUT_INTERLEAVING
    ELSE NO_PIPELINING

\* _get_fwd_bwd_function with the two pipelining branches exchanged.
GetFwdBwdFunction_Swapped(c) ==
    IF CfgGet(c.pipeline_model_parallel_size, 1) > 1
    THEN IF c.virtual_pipeline_model_parallel_size # None
         THEN WITHOUT_INTERLEAVING
         ELSE WITH_INTERLEAVING
    ELSE NO_PIPELINING

\* _get_fwd_bwd_function
GetFwdBwdFunction(c) ==
    IF CfgGet(c.pipeline_model_parallel_size, 1) > 1
    THEN IF c.virtual_pipeline_model_parallel_size # None
         THEN WITH_INTERLEAVING
         ELSE WITHOUT_INTERLEAVING
    ELSE NO_PIPELINING

\* The suppression context chosen without reading sequence_parallel.
CustomSyncContextHandler_IgnoresSequenceParallel(c, o2) ==
    IF c.with_distributed_adam
    THEN IF o2 THEN "no_sync(greedy_grad_copy=True)"
               ELSE "no_sync(greedy_grad_copy=False)"
    ELSE IF o2
         THEN "no_sync"
         ELSE "None"

\* The suppression context with "or" for "and" in the standard-optimizer test.
CustomSyncContextHandler_Or(c, o2) ==
    IF c.with_distributed_adam
    THEN IF o2 THEN "no_sync(greedy_grad_copy=True)"
               ELSE "no_sync(greedy_grad_copy=False)"
    ELSE IF o2 \/ ~c.sequence_parallel
         THEN "no_sync"
         ELSE "None"

\* training_step: the gradient-sync suppression context for the schedule.
CustomSyncContextHandler(c, o2) ==
    IF c.with_distributed_adam
    THEN IF o2 THEN "no_sync(greedy_grad_copy=True)"
               ELSE "no_sync(greedy_grad_copy=False)"
    ELSE IF o2 /\ ~c.sequence_parallel
         THEN "no_sync"
         ELSE "None"

\* The sequence-parallel test without the tensor-parallel size.
SequenceParallelDue_IgnoresTensorSize(c) == c.sequence_parallel

\* training_step: whether the sequence-parallel all-reduce runs.
SequenceParallelDue(c) ==
    CfgGet(c.tensor_model_parallel_size, 1) > 1 /\ c.sequence_parallel

\* The gradient all-reduce with the main-gradient call made only under
\* pipeline or sequence parallelism.
GradSyncCalls_OnlyWhenPipelined(c, o2) ==
    IF c.with_distributed_adam
    THEN << >>
    ELSE IF o2
         THEN IF CfgGet(c.pipeline_model_parallel_size, 1) > 1 \/ c.sequence_parallel
              THEN <<"allreduce_main_grads">>
              ELSE << >>
         ELSE <<"allreduce_gradients">>

\* The gradient all-reduce without the distributed-optimizer branch.
GradSyncCalls_IgnoresDistributed(c, o2) ==
    IF o2
    THEN <<"allreduce_main_grads">>
    ELSE <<"allreduce_gradients">>

\* training_step: the gradient all-reduce made after the schedule.
GradSyncCalls(c, o2) ==
    IF c.with_distributed_adam
    THEN << >>
    ELSE IF o2
         THEN <<"allreduce_main_grads">>
         ELSE <<"allreduce_gradients">>

\* training_step: grad_scaler argument of the schedule.
GradScaler(c) == IF c.precision = "16" THEN "scaler" ELSE "None"

\* process_global_batch: TRUE when it raises NotImplementedError.
\* global_batch_size is None when the caller does not pass it.
ProcessGlobalBatchRaises(size, global_batch_size, ps) ==
    LET expected_batch_size ==
            IF global_batch_size # None
            THEN global_batch_size \div ps.data_parallel_world_size
            ELSE None
    IN  expected_batch_size # None /\ expected_batch_size > size

\* ---------------------------------------------------------- metric values
\* The loss of a micro-batch is kept as the micro-batch itself: <<s, k>> is
\* the loss of micro-batch k of validation (or test) step s of the epoch
\* (s = 0 in a train step).  A metric is kept as the weighted sum it was
\* computed as: the sum of weight x loss over `terms`, divided by `div`.
Unset == [terms |-> << >>, div |-> 0]

\* torch.tensor(0.0): the placeholder of ranks that hold no losses.
ZeroPlaceholder == [terms |-> << >>, div |-> 1]

\* The step loss with the division by the number of micro-batches left out.
LossMean_Sum(losses) ==
    IF losses # << >>
    THEN [terms |-> [i \in 1 .. Len(losses) |-> <<losses[i], 1>>], div |-> 1]
    ELSE ZeroPlaceholder

\* training_step: the mean of the 'loss' entries of the schedule's result,
\* the zero placeholder when the result is empty.
LossMean(losses) ==
    IF losses # << >>
    THEN [terms |-> [i \in 1 .. Len(losses) |-> <<losses[i], 1>>],
          div |-> Len(losses)]
    ELSE ZeroPlaceholder

\* validation_step._get_metric_with_batch_size: a [loss, micro_batch_size]
\* pair per micro-batch, the empty list when the result is empty.
MetricWithBatchSize(losses, c) ==
    [i \in 1 .. Len(losses) |-> <<losses[i], c.micro_batch_size>>]

\* The losses the schedule returns on a rank of the last pipeline stage
\* after n micro-batches of step s.
TerminalLosses(s, n) == [k \in 1 .. n |-> <<s, k>>]

\* The validation outputs of a rank of the last pipeline stage after `steps`
\* validation steps.
TerminalOutputs(steps, n, c) ==
    [s \in 1 .. steps |-> MetricWithBatchSize(TerminalLosses(s, n), c)]

\* validation_epoch_end: loss_outputs = [output[0] for output in outputs];
\* output[0] is the first [loss, batch_size] pair of a validation step.
LossOutputs(outs) == [i \in 1 .. Len(outs) |-> <<outs[i][1]>>]

RECURSIVE Flatten(_)
\* The pairs of a sequence of sequences of pairs, in order.
Flatten(seqs) ==
    IF seqs = << >> THEN << >> ELSE Head(seqs) \o Flatten(Tail(seqs))

RECURSIVE SumWeights(_)
\* The sum of the weights of a sequence of <<loss, weight>> pairs.
SumWeights(pairs) ==
    IF pairs = << >> THEN 0 ELSE Head(pairs)[2] + SumWeights(Tail(pairs))

\* validation_epoch_end._get_average_metric: total_metric over
\* total_num_samples, both accumulated over the flattened metric_outputs.
GetAverageMetric(metric_outputs) ==
    [terms |-> Flatten(metric_outputs),
     div |-> SumWeights(Flatten(metric_outputs))]

\* ------------------------------------------------------------- broadcasts
\* Number of processes: tensor x pipeline x data parallel sizes.
WorldSize(c, ps) ==
    CfgGet(c.tensor_model_parallel_size, 1) * PipelineWorldSize(c)
        * ps.data_parallel_world_size

\* get_last_rank(): the rank of the last process.
GetLastRank(c, ps) == WorldSize(c, ps) - 1

\* The pipeline rank of global rank r: consecutive blocks of ranks form the
\* pipeline stages.
PipelineRankOf(r, c, ps) == r \div (WorldSize(c, ps) \div PipelineWorldSize(c))

\* A broadcast with rank 0 for source.
BroadcastSource_RankZero(c, ps) == 0

\* training_step / validation_epoch_end: the src argument of
\* torch.distributed.broadcast.
BroadcastSource(c, ps) == GetLastRank(c, ps)

\* torch.distributed.broadcast(tensor, src): every rank ends with the
\* tensor of rank src, which is `terminal` (the value of the ranks of the
\* last pipeline stage) when src hosts that stage and the zero placeholder
\* otherwise.
Broadcast(terminal, src, c, ps) ==
    IF PipelineRankOf(src, c, ps) = PipelineWorldSize(c) - 1
    THEN terminal
    ELSE ZeroPlaceholder

\* ------------------------------------------------------------------- Init
\* Before construction.  The loaders need a positive batch size, so the
\* global batch holds at least one micro-batch per data-parallel rank.
Init ==
    /\ cfg \in Configs
    /\ trainer \in [accumulate_grad_batches : 1 .. 2, precision : Precisions]
    /\ trainer.precision = cfg.precision
    /\ parallel_state \in [data_parallel_world_size : 1 .. MaxDataParallel,
                           pipeline_rank : 0 .. (MaxPipeline - 1)]
    /\ parallel_state.pipeline_rank < PipelineWorldSize(cfg)
    /\ cfg.global_batch_size >=
          cfg.micro_batch_size * parallel_state.data_parallel_world_size
    /\ phase = "new"
    /\ model = [is_list |-> FALSE, len |-> 0]
    /\ megatron_amp_o2 = FALSE
    /\ autocast_dtype = "unset"
    /\ num_micro_batches = 0
    /\ batch_size_on_rank = 0
    /\ kind = "none"
    /\ pc = "idle"
    /\ current_batch_size = 0
    /\ batch_for_pipeline = "unset"
    /\ fwd_bwd_function = "unset"
    /\ custom_sync_context_handler = "unset"
    /\ forward_only = FALSE
    /\ grad_scaler = "unset"
    /\ micro_batches_done = 0
    /\ error = "none"
    /\ calls = << >>
    /\ losses_reduced_per_micro_batch = << >>
    /\ loss_mean = Unset
    /\ loss_with_batch_size_list = << >>
    /\ outputs = << >>
    /\ averaged_metrics = Unset
    /\ broadcast_src = None
    /\ seed = 1
    /\ stage_state = << >>
    /\ virtual_pipeline_rank = 0
    /\ checkpoint = TrainerCheckpoint
    /\ saved = {}
    /\ hook = NoHook
    /\ plan = NoPlan
    /\ peers = << >>
    /\ params = << >>
    /\ all_reduces = << >>

\* ------------------------------------------------------------------ steps
\* training_step with the sequence-parallel all-reduce ahead of the schedule.
\* The blocks of training_step with the loss broadcast left out.
TrainingStepOrder_NoBroadcast == <<"schedule", "sync_sp", "sync_grads", "returned">>

\* The blocks of training_step with the sequence-parallel all-reduce first.
TrainingStepOrder_SyncFirst ==
    <<"sync_sp", "schedule", "sync_grads", "broadcast", "returned">>

\* Order of the blocks of training_step that follow the batch preparation.
TrainingStepOrder == <<"schedule", "sync_sp", "sync_grads", "broadcast", "returned">>

\* The block that follows block p in training_step.
NextBlock(p) ==
    LET i == CHOOSE j \in 1 .. Len(TrainingStepOrder) : TrainingStepOrder[j] = p
    IN  TrainingStepOrder[i + 1]

\* The stage test of training_step with the last stage left out.
NeedsInputs_FirstOnly(c, ps) == IsPipelineFirstStage(c, ps)

\* training_step: the ranks that prepare the batch for the schedule (the
\* others pass None).
NeedsInputs(c, ps) ==
    IsPipelineFirstStage(c, ps) \/ IsPipelineLastStage(c, ps)

\* The schedule's forward_only argument with the backward passes never run.
ForwardOnly_Always(k) == TRUE

\* The forward_only argument of the schedule: False in training_step, True
\* in validation_step (and so in test_step).
ForwardOnly(k) == k # "train"

\* A step starts with no result of its own; the outputs collected in the
\* epoch stay.
ResultsCleared ==
    /\ losses_reduced_per_micro_batch' = << >>
    /\ loss_mean' = Unset
    /\ loss_with_batch_size_list' = << >>
    /\ broadcast_src' = None
    /\ averaged_metrics' = Unset
    /\ UNCHANGED outputs

\* training_step, up to the invocation of the schedule.
TrainingStep(size) ==
    LET needs_inputs == NeedsInputs(cfg, parallel_state)
    IN
    /\ phase = "ready" /\ pc = "idle"
    /\ outputs = << >>
    /\ ResultsCleared
    /\ kind' = "train"
    /\ current_batch_size' = size
    /\ calls' = <<"zero_grad">>
    /\ micro_batches_done' = 0
    /\ IF needs_inputs /\ ProcessGlobalBatchRaises(size, None, parallel_state)
       THEN /\ pc' = "raised"
            /\ error' = "NotImplementedError"
            /\ UNCHANGED <<batch_for_pipeline, fwd_bwd_function,
                           custom_sync_context_handler, forward_only, grad_scaler>>
       ELSE /\ pc' = TrainingStepOrder[1]
            /\ error' = "none"
            /\ batch_for_pipeline' = IF needs_inputs THEN "inputs" ELSE "None"
            /\ custom_sync_context_handler' =
                  CustomSyncContextHandler(cfg, megatron_amp_o2)
            /\ fwd_bwd_function' = GetFwdBwdFunction(cfg)
            /\ forward_only' = ForwardOnly("train")
            /\ grad_scaler' = GradScaler(cfg)
    /\ UNCHANGED <<object_vars, stage_vars, hook_vars, peer_vars, grad_vars, phase, built_vars, setup_vars>>

\* validation_step, up to the invocation of the schedule; k is "validation",
\* or "test" when test_step delegates to it.
ValidationStepAs(k, size) ==
    /\ phase = "ready" /\ pc = "idle"
    /\ IF k = "validation"
       THEN Len(outputs) < MaxValidationSteps
       ELSE outputs = << >>
    /\ ResultsCleared
    /\ kind' = k
    /\ current_batch_size' = size
    /\ calls' = << >>
    /\ micro_batches_done' = 0
    /\ IF ProcessGlobalBatchRaises(size, cfg.global_batch_size, parallel_state)
       THEN /\ pc' = "raised"
            /\ error' = "NotImplementedError"
            /\ UNCHANGED <<batch_for_pipeline, fwd_bwd_function,
                           custom_sync_context_handler, forward_only, grad_scaler>>
       ELSE /\ pc' = "schedule"
            /\ error' = "none"
            /\ batch_for_pipeline' = "inputs"
            /\ fwd_bwd_function' = GetFwdBwdFunction(cfg)
            /\ forward_only' = ForwardOnly(k)
            /\ grad_scaler' = "None"
            /\ custom_sync_context_handler' = "None"
    /\ UNCHANGED <<object_vars, stage_vars, hook_vars, peer_vars, grad_vars, phase, built_vars, setup_vars>>

\* The trainer runs a train step on a batch of the train loader.
TrainStep ==
    \E size \in LoaderBatchSizes("train", cfg, batch_size_on_rank) :
        TrainingStep(size)

\* The trainer runs validation_step on a batch of the validation loader.
ValidationStep ==
    \E size \in LoaderBatchSizes("validation", cfg, batch_size_on_rank) :
        ValidationStepAs("validation", size)

\* test_step: returns validation_step(batch, batch_idx).
TestStep ==
    \E size \in LoaderBatchSizes("test", cfg, batch_size_on_rank) :
        ValidationStepAs("test", size)

\* parallel_state.is_pipeline_first_stage() as the callback calls it,
\* without ignore_virtual: with a virtual size only the first virtual stage
\* of the first pipeline stage counts; v is the active virtual rank.
IsPipelineFirstVirtualStage(c, ps, v) ==
    IF c.virtual_pipeline_model_parallel_size # None /\ v # 0
    THEN FALSE
    ELSE ps.pipeline_rank = 0

\* A callback that reads the batch on every stage.
ReadsBatch_EveryStage(c, ps, v) == TRUE

\* fwd_output_and_loss_func: whether it reads elements of `batch`: always
\* with a pipeline world size of 1, else on the first stage only.
ReadsBatch(c, ps, v) ==
    IF PipelineWorldSize(c) = 1
    THEN TRUE
    ELSE IsPipelineFirstVirtualStage(c, ps, v)

\* fwd_output_and_loss_func: the (images, captions) it passes to the model.
ModelInputs(c, ps, v) ==
    IF ReadsBatch(c, ps, v) THEN "batch" ELSE "None"

\* The virtual ranks the schedule may have made active when it calls the
\* callback.
VirtualRanks == 0 .. MaxVirtual

\* The schedule runs one micro-batch: it calls fwd_output_and_loss_func
\* (and the backward pass unless forward_only); reading an element of a
\* batch that is None raises TypeError.  The last stage keeps the loss.
ScheduleMicroBatch ==
    /\ pc = "schedule"
    /\ micro_batches_done < num_micro_batches
    /\ IF /\ batch_for_pipeline = "None"
          /\ \E v \in VirtualRanks : ReadsBatch(cfg, parallel_state, v)
       THEN /\ pc' = "raised"
            /\ error' = "TypeError"
            /\ UNCHANGED <<micro_batches_done, calls,
                           losses_reduced_per_micro_batch>>
       ELSE /\ micro_batches_done' = micro_batches_done + 1
            /\ calls' = Append(calls, IF forward_only THEN "forward"
                                                      ELSE "forward_backward")
            /\ losses_reduced_per_micro_batch' =
                  IF IsPipelineLastStage(cfg, parallel_state)
                  THEN Append(losses_reduced_per_micro_batch,
                              <<IF kind = "train" THEN 0 ELSE Len(outputs) + 1,
                                micro_batches_done + 1>>)
                  ELSE losses_reduced_per_micro_batch
            /\ UNCHANGED <<pc, error>>
    /\ UNCHANGED <<object_vars, stage_vars, hook_vars, peer_vars, grad_vars, phase, built_vars, setup_vars, kind,
                   current_batch_size, batch_for_pipeline, fwd_bwd_function,
                   custom_sync_context_handler, forward_only, grad_scaler,
                   loss_mean, loss_with_batch_size_list, outputs,
                   averaged_metrics, broadcast_src>>

\* Every step kind going on to the gradient synchronisation.
AfterSchedule_AlwaysSync(k) == NextBlock("schedule")

\* The block that follows the schedule call in a step of kind k:
\* training_step goes on to the gradient synchronisation, validation_step
\* (and test_step, which calls it) builds its result and returns.
AfterSchedule(k) == IF k = "train" THEN NextBlock("schedule") ELSE "returned"

\* The schedule returns the per-micro-batch losses; validation_step then
\* returns, training_step goes on to the gradient synchronisation.
ScheduleReturns ==
    /\ pc = "schedule"
    /\ micro_batches_done = num_micro_batches
    /\ calls' = Append(calls, "schedule_returned")
    /\ pc' = AfterSchedule(kind)
    /\ IF kind = "train"
       THEN /\ loss_mean' = LossMean(losses_reduced_per_micro_batch)
            /\ UNCHANGED loss_with_batch_size_list
       ELSE /\ loss_with_batch_size_list' =
                  MetricWithBatchSize(losses_reduced_per_micro_batch, cfg)
            /\ UNCHANGED loss_mean
    /\ UNCHANGED <<object_vars, stage_vars, hook_vars, peer_vars, grad_vars, phase, built_vars, setup_vars, kind,
                   current_batch_size, batch_for_pipeline, fwd_bwd_function,
                   custom_sync_context_handler, forward_only, grad_scaler,
                   micro_batches_done, error, losses_reduced_per_micro_batch,
                   outputs, averaged_metrics, broadcast_src>>

\* training_step: the sequence-parallel all-reduce, when it is due.
SyncSequenceParallel ==
    /\ pc = "sync_sp"
    /\ calls' = IF SequenceParallelDue(cfg)
                THEN Append(calls, "allreduce_sequence_parallel_gradients")
                ELSE calls
    /\ pc' = NextBlock("sync_sp")
    /\ UNCHANGED <<object_vars, stage_vars, hook_vars, peer_vars, grad_vars, phase, built_vars, setup_vars, kind,
                   current_batch_size, batch_for_pipeline, fwd_bwd_function,
                   custom_sync_context_handler, forward_only, grad_scaler,
                   micro_batches_done, error, result_vars>>

\* training_step: the gradient all-reduce the optimizer mode asks for.
SyncGradients ==
    /\ pc = "sync_grads"
    /\ calls' = calls \o GradSyncCalls(cfg, megatron_amp_o2)
    /\ pc' = NextBlock("sync_grads")
    /\ UNCHANGED <<object_vars, stage_vars, hook_vars, peer_vars, grad_vars, phase, built_vars, setup_vars, kind,
                   current_batch_size, batch_for_pipeline, fwd_bwd_function,
                   custom_sync_context_handler, forward_only, grad_scaler,
                   micro_batches_done, error, result_vars>>

\* training_step: broadcast of the loss from the last rank, logging, return.
BroadcastLoss ==
    /\ pc = "broadcast"
    /\ calls' = Append(calls, "broadcast")
    /\ broadcast_src' = BroadcastSource(cfg, parallel_state)
    /\ loss_mean' =
          Broadcast(IF IsPipelineLastStage(cfg, parallel_state)
                    THEN loss_mean
                    ELSE LossMean(TerminalLosses(0, num_micro_batches)),
                    BroadcastSource(cfg, parallel_state), cfg, parallel_state)
    /\ pc' = NextBlock("broadcast")
    /\ UNCHANGED <<object_vars, stage_vars, hook_vars, peer_vars, grad_vars, phase, built_vars, setup_vars, kind,
                   current_batch_size, batch_for_pipeline, fwd_bwd_function,
                   custom_sync_context_handler, forward_only, grad_scaler,
                   micro_batches_done, error, losses_reduced_per_micro_batch,
                   loss_with_batch_size_list, outputs, averaged_metrics>>

\* The call a block of the step is about to make, "none" when it makes none.
PendingCall ==
    CASE pc = "schedule" -> "fwd_bwd_function"
      [] pc = "sync_sp" /\ SequenceParallelDue(cfg) ->
            "allreduce_sequence_parallel_gradients"
      [] pc = "sync_grads" /\ GradSyncCalls(cfg, megatron_amp_o2) # << >> ->
            GradSyncCalls(cfg, megatron_amp_o2)[1]
      [] pc = "broadcast" -> "broadcast"
      [] OTHER -> "none"

\* The failure of a call caught: the step goes on with its next block.
CallRaises_Swallowed ==
    /\ PendingCall # "none"
    /\ pc' = NextBlock(pc)
    /\ error' = PendingCall
    /\ UNCHANGED <<object_vars, stage_vars, hook_vars, peer_vars, grad_vars, phase, built_vars, setup_vars, kind,
                   current_batch_size, batch_for_pipeline, fwd_bwd_function,
                   custom_sync_context_handler, forward_only, grad_scaler,
                   micro_batches_done, calls, result_vars>>

\* The schedule or a collective raises: nothing in the step catches it.
CallRaises ==
    /\ PendingCall # "none"
    /\ pc' = "raised"
    /\ error' = PendingCall
    /\ UNCHANGED <<object_vars, stage_vars, hook_vars, peer_vars, grad_vars, phase, built_vars, setup_vars, kind,
                   current_batch_size, batch_for_pipeline, fwd_bwd_function,
                   custom_sync_context_handler, forward_only, grad_scaler,
                   micro_batches_done, calls, result_vars>>

\* A zero-grad hook that zeroes the gradients of the optimizer.
HookCalls_ZeroGrad(h) ==
    IF h = "optimizer_zero_grad" THEN <<"zero_grad">> ELSE << >>

\* backward / optimizer_zero_grad: the calls the body of hook h makes; both
\* bodies are 'pass'.
HookCalls(h) == << >>

\* The trainer calls the hook h of the module between the return of
\* training_step and the optimizer's step.
TrainerHook(h) ==
    /\ pc = "returned" /\ kind = "train"
    /\ calls' = calls \o HookCalls(h)
    /\ UNCHANGED <<object_vars, stage_vars, hook_vars, peer_vars, grad_vars, phase, built_vars, setup_vars, kind,
                   pc, current_batch_size, batch_for_pipeline, fwd_bwd_function,
                   custom_sync_context_handler, forward_only, grad_scaler,
                   micro_batches_done, error, result_vars>>

\* LightningModule.backward, called by the trainer.
Backward == TrainerHook("backward")

\* LightningModule.optimizer_zero_grad, called by the trainer.
OptimizerZeroGrad == TrainerHook("optimizer_zero_grad")

\* The trainer steps the optimizer after training_step returned.
OptimizerStep ==
    /\ pc = "returned" /\ kind = "train"
    /\ calls' = Append(calls, "optimizer_step")
    /\ pc' = "stepped"
    /\ UNCHANGED <<object_vars, stage_vars, hook_vars, peer_vars, grad_vars, phase, built_vars, setup_vars, kind,
                   current_batch_size, batch_for_pipeline, fwd_bwd_function,
                   custom_sync_context_handler, forward_only, grad_scaler,
                   micro_batches_done, error, result_vars>>

\* validation_epoch_end: nothing on an epoch without outputs; else the
\* average of the collected outputs on a last-stage rank (every step holds
\* at least one micro-batch, so output[0] exists), a zero elsewhere, then
\* the broadcast.
ValidationEpochEnd ==
    /\ phase = "ready" /\ pc = "idle"
    /\ IF outputs = << >>
       THEN /\ pc' = "epoch_end"
            /\ UNCHANGED <<calls, error, averaged_metrics, broadcast_src>>
       ELSE /\ pc' = "epoch_end"
            /\ calls' = Append(calls, "broadcast")
            /\ broadcast_src' = BroadcastSource(cfg, parallel_state)
            /\ averaged_metrics' =
                  Broadcast(IF IsPipelineLastStage(cfg, parallel_state)
                            THEN GetAverageMetric(LossOutputs(outputs))
                            ELSE GetAverageMetric(LossOutputs(
                                     TerminalOutputs(Len(outputs), num_micro_batches, cfg))),
                            BroadcastSource(cfg, parallel_state), cfg, parallel_state)
            /\ UNCHANGED error
    /\ UNCHANGED <<object_vars, stage_vars, hook_vars, peer_vars, grad_vars, phase, built_vars, setup_vars, kind,
                   current_batch_size, batch_for_pipeline, fwd_bwd_function,
                   custom_sync_context_handler, forward_only, grad_scaler,
                   micro_batches_done, losses_reduced_per_micro_batch,
                   loss_mean, loss_with_batch_size_list, outputs>>

\* The trainer moves on to the next batch; it keeps what validation_step
\* returned for the end of the epoch.
NextBatch ==
    /\ \/ pc = "stepped"
       \/ pc = "returned" /\ kind # "train"
       \/ pc = "epoch_end"
    /\ outputs' = CASE pc = "epoch_end" -> << >>
                  [] kind = "validation" -> Append(outputs, loss_with_batch_size_list)
                  [] OTHER -> outputs
    /\ losses_reduced_per_micro_batch' = << >>
    /\ loss_mean' = Unset
    /\ loss_with_batch_size_list' = << >>
    /\ averaged_metrics' = Unset
    /\ broadcast_src' = None
    /\ kind' = "none"
    /\ pc' = "idle"
    /\ current_batch_size' = 0
    /\ batch_for_pipeline' = "unset"
    /\ fwd_bwd_function' = "unset"
    /\ custom_sync_context_handler' = "unset"
    /\ forward_only' = FALSE
    /\ grad_scaler' = "unset"
    /\ micro_batches_done' = 0
    /\ error' = "none"
    /\ calls' = << >>
    /\ UNCHANGED <<object_vars, stage_vars, hook_vars, peer_vars, grad_vars, phase, built_vars, setup_vars>>

Next ==
    \/ Construct
    \/ Setup
    \/ TrainStep
    \/ ValidationStep
    \/ TestStep
    \/ ScheduleMicroBatch
    \/ ScheduleReturns
    \/ SyncSequenceParallel
    \/ SyncGradients
    \/ BroadcastLoss
    \/ CallRaises
    \/ Backward
    \/ OptimizerZeroGrad
    \/ OptimizerStep
    \/ ValidationEpochEnd
    \/ NextBatch

Spec == Init /\ [][Next]_vars

\* ----------------------------------------------------------- construction
\* Configurations of the construction runs: what __init__ reads varies.
ConstructionConfigs ==
    [pipeline_model_parallel_size : {None, 2},
     virtual_pipeline_model_parallel_size : OptInt(MaxVirtual),
     tensor_model_parallel_size : {None},
     sequence_parallel : {FALSE},
     megatron_amp_O2 : BOOLEAN,
     with_distributed_adam : {FALSE},
     precision : Precisions,
     micro_batch_size : {1},
     global_batch_size : {1},
     drop_last : {FALSE}]

\* Before construction, with any trainer: its precision need not be the
\* model's and it may accumulate any number of batches.
InitConstruction ==
    /\ cfg \in ConstructionConfigs
    /\ trainer \in [accumulate_grad_batches : 0 .. MaxAccumulate,
                     precision : Precisions]
    /\ parallel_state = [data_parallel_world_size |-> 1, pipeline_rank |-> 0]
    /\ phase = "new"
    /\ model = [is_list |-> FALSE, len |-> 0]
    /\ megatron_amp_o2 = FALSE
    /\ autocast_dtype = "unset"
    /\ num_micro_batches = 0
    /\ batch_size_on_rank = 0
    /\ kind = "none"
    /\ pc = "idle"
    /\ current_batch_size = 0
    /\ batch_for_pipeline = "unset"
    /\ fwd_bwd_function = "unset"
    /\ custom_sync_context_handler = "unset"
    /\ forward_only = FALSE
    /\ grad_scaler = "unset"
    /\ micro_batches_done = 0
    /\ error = "none"
    /\ calls = << >>
    /\ losses_reduced_per_micro_batch = << >>
    /\ loss_mean = Unset
    /\ loss_with_batch_size_list = << >>
    /\ outputs = << >>
    /\ averaged_metrics = Unset
    /\ broadcast_src = None
    /\ seed = 1
    /\ stage_state = << >>
    /\ virtual_pipeline_rank = 0
    /\ checkpoint = TrainerCheckpoint
    /\ saved = {}
    /\ hook = NoHook
    /\ plan = NoPlan
    /\ peers = << >>
    /\ params = << >>
    /\ all_reduces = << >>

NextConstruction ==
    \/ Construct
    \/ Setup

SpecConstruction == InitConstruction /\ [][NextConstruction]_vars

\* ------------------------------------------------------- checkpoint hooks
\* on_save_checkpoint, called by the trainer with a mapping of its own
\* entries.  A hook that raised has ended the job.
OnSaveCheckpoint ==
    /\ phase \in {"built", "ready"} /\ pc = "idle"
    /\ hook.error = "none"
    /\ LET start == [rank |-> virtual_pipeline_rank,
                     checkpoint |-> TrainerCheckpoint,
                     events |-> << >>, error |-> "none"]
           end == IF IsInstanceList(model)
                  THEN SaveStages(0, stage_state, megatron_amp_o2, start)
                  ELSE start
       IN  /\ checkpoint' = end.checkpoint
           /\ virtual_pipeline_rank' = end.rank
           /\ hook' = [name |-> "on_save_checkpoint", error |-> end.error,
                       events |-> end.events, arg |-> TrainerCheckpoint,
                       stage_state |-> stage_state,
                       rank |-> virtual_pipeline_rank]
    /\ saved' = {[cfg |-> cfg, stage_state |-> stage_state]}
    /\ UNCHANGED <<object_vars, phase, built_vars, setup_vars, step_vars,
                   result_vars, seed, stage_state, peer_vars, grad_vars>>

\* on_load_checkpoint, called by the trainer with the mapping ck.
OnLoadCheckpoint(ck) ==
    /\ phase \in {"built", "ready"} /\ pc = "idle"
    /\ hook.error = "none"
    /\ LET start == [rank |-> virtual_pipeline_rank, stages |-> stage_state,
                     events |-> << >>, error |-> "none"]
           end == IF IsInstanceList(model)
                  THEN LoadStages(0, ck, megatron_amp_o2, start)
                  ELSE start
       IN  /\ stage_state' = end.stages
           /\ virtual_pipeline_rank' = end.rank
           /\ hook' = [name |-> "on_load_checkpoint", error |-> end.error,
                       events |-> end.events, arg |-> ck,
                       stage_state |-> stage_state,
                       rank |-> virtual_pipeline_rank]
    /\ UNCHANGED <<object_vars, phase, built_vars, setup_vars, step_vars,
                   result_vars, seed, checkpoint, saved, peer_vars, grad_vars>>

\* The trainer resumes from the checkpoint.
LoadCheckpoint == \E ck \in LoadInputs(checkpoint) : OnLoadCheckpoint(ck)

\* The job is started again: a new model object with a configuration and a
\* seed of its own; the checkpoint written last is kept.
Restart ==
    /\ phase # "new"
    /\ cfg' \in CheckpointConfigs
    /\ seed' \in 1 .. MaxSeed
    /\ phase' = "new"
    /\ model' = [is_list |-> FALSE, len |-> 0]
    /\ megatron_amp_o2' = FALSE
    /\ autocast_dtype' = "unset"
    /\ num_micro_batches' = 0
    /\ batch_size_on_rank' = 0
    /\ stage_state' = << >>
    /\ virtual_pipeline_rank' = 0
    /\ hook' = NoHook
    /\ UNCHANGED <<trainer, parallel_state, step_vars, result_vars,
                   checkpoint, saved, peer_vars, grad_vars>>

\* Before construction, in a job that saves and loads checkpoints.
InitCheckpoint ==
    /\ cfg \in CheckpointConfigs
    /\ trainer = [accumulate_grad_batches |-> 1, precision |-> "bf16"]
    /\ parallel_state = [data_parallel_world_size |-> 1, pipeline_rank |-> 0]
    /\ phase = "new"
    /\ model = [is_list |-> FALSE, len |-> 0]
    /\ megatron_amp_o2 = FALSE
    /\ autocast_dtype = "unset"
    /\ num_micro_batches = 0
    /\ batch_size_on_rank = 0
    /\ kind = "none"
    /\ pc = "idle"
    /\ current_batch_size = 0
    /\ batch_for_pipeline = "unset"
    /\ fwd_bwd_function = "unset"
    /\ custom_sync_context_handler = "unset"
    /\ forward_only = FALSE
    /\ grad_scaler = "unset"
    /\ micro_batches_done = 0
    /\ error = "none"
    /\ calls = << >>
    /\ losses_reduced_per_micro_batch = << >>
    /\ loss_mean = Unset
    /\ loss_with_batch_size_list = << >>
    /\ outputs = << >>
    /\ averaged_metrics = Unset
    /\ broadcast_src = None
    /\ seed \in 1 .. MaxSeed
    /\ stage_state = << >>
    /\ virtual_pipeline_rank = 0
    /\ checkpoint = TrainerCheckpoint
    /\ saved = {}
    /\ hook = NoHook
    /\ plan = NoPlan
    /\ peers = << >>
    /\ params = << >>
    /\ all_reduces = << >>

NextCheckpoint ==
    \/ Construct
    \/ Setup
    \/ OnSaveCheckpoint
    \/ LoadCheckpoint
    \/ Restart

SpecCheckpoint == InitCheckpoint /\ [][NextCheckpoint]_vars

\* ------------------------------------------------- the ranks of one job
\* One process for each pipeline stage of the job, every one running the
\* same step on the shared configuration: rank i of `peers` hosts stage
\* i - 1.  A collective over all ranks completes when every rank has
\* called it; a rank that called it waits with pc = "broadcast".
RankConfigs ==
    [pipeline_model_parallel_size : {None} \cup (1 .. MaxPipeline),
     virtual_pipeline_model_parallel_size : {None},
     tensor_model_parallel_size : {None} \cup (1 .. MaxTensor),
     sequence_parallel : BOOLEAN,
     megatron_amp_O2 : BOOLEAN,
     with_distributed_adam : BOOLEAN,
     precision : {"bf16"},
     micro_batch_size : {1},
     global_batch_size : {2},
     drop_last : {FALSE}]

\* What the steps of the ranks leave alone.
rank_frame == <<object_vars, phase, built_vars, setup_vars, step_vars,
                result_vars, stage_vars, hook_vars, grad_vars>>

\* parallel_state.is_pipeline_last_stage() on rank i of `peers`.
IsLastStageRank(i) == i = PipelineWorldSize(cfg)

\* The trainer calls training_step on every rank.
StartTrainOnAllRanks ==
    /\ phase = "ready" /\ plan = NoPlan
    /\ plan' = [kind |-> "train", steps |-> 0]
    /\ peers' = [i \in 1 .. PipelineWorldSize(cfg) |->
                    [pc |-> TrainingStepOrder[1], calls |-> << >>,
                     outputs |-> << >>, metric |-> Unset]]
    /\ UNCHANGED rank_frame

\* The trainer calls validation_epoch_end on every rank after an epoch of
\* `steps` validation steps: the last stage collected their pairs, the
\* other stages an empty list for each step.
StartEpochEndOnAllRanks(steps) ==
    /\ phase = "ready" /\ plan = NoPlan
    /\ plan' = [kind |-> "validation", steps |-> steps]
    /\ peers' = [i \in 1 .. PipelineWorldSize(cfg) |->
                    [pc |-> "epoch_end", calls |-> << >>,
                     outputs |-> IF IsLastStageRank(i)
                                 THEN TerminalOutputs(steps, num_micro_batches, cfg)
                                 ELSE [s \in 1 .. steps |->
                                          MetricWithBatchSize(<< >>, cfg)],
                     metric |-> Unset]]
    /\ UNCHANGED rank_frame

\* training_step on rank i: the schedule and the mean of its losses.
ScheduleOnRank(i) ==
    /\ i \in DOMAIN peers /\ peers[i].pc = "schedule"
    /\ peers' = [peers EXCEPT
                   ![i].pc = NextBlock("schedule"),
                   ![i].metric = LossMean(IF IsLastStageRank(i)
                                          THEN TerminalLosses(0, num_micro_batches)
                                          ELSE << >>)]
    /\ UNCHANGED <<rank_frame, plan>>

\* training_step on rank i: the sequence-parallel all-reduce.
SyncSequenceParallelOnRank(i) ==
    /\ i \in DOMAIN peers /\ peers[i].pc = "sync_sp"
    /\ peers' = [peers EXCEPT
                   ![i].pc = NextBlock("sync_sp"),
                   ![i].calls = IF SequenceParallelDue(cfg)
                                THEN Append(@, "allreduce_sequence_parallel_gradients")
                                ELSE @]
    /\ UNCHANGED <<rank_frame, plan>>

\* training_step on rank i: the gradient all-reduce.
SyncGradientsOnRank(i) ==
    /\ i \in DOMAIN peers /\ peers[i].pc = "sync_grads"
    /\ peers' = [peers EXCEPT
                   ![i].pc = NextBlock("sync_grads"),
                   ![i].calls = @ \o GradSyncCalls(cfg, megatron_amp_o2)]
    /\ UNCHANGED <<rank_frame, plan>>

\* validation_epoch_end on rank i up to the broadcast.
EpochEndOnRank(i) ==
    /\ i \in DOMAIN peers /\ peers[i].pc = "epoch_end"
    /\ peers' = [peers EXCEPT
                   ![i].pc = IF peers[i].outputs = << >>
                             THEN "returned"
                             ELSE "broadcast",
                   ![i].metric = IF peers[i].outputs = << >>
                                 THEN @
                                 ELSE IF IsLastStageRank(i)
                                      THEN GetAverageMetric(LossOutputs(peers[i].outputs))
                                      ELSE ZeroPlaceholder]
    /\ UNCHANGED <<rank_frame, plan>>

\* torch.distributed.broadcast(tensor, get_last_rank()): completes once
\* every rank has called it and leaves the source's tensor on every rank.
BroadcastOnAllRanks ==
    /\ peers # << >>
    /\ \A i \in DOMAIN peers : peers[i].pc = "broadcast"
    /\ LET src == PipelineRankOf(BroadcastSource(cfg, parallel_state),
                                 cfg, parallel_state) + 1
       IN  peers' = [i \in DOMAIN peers |->
                        [peers[i] EXCEPT !.pc = "returned",
                                         !.calls = Append(@, "broadcast"),
                                         !.metric = peers[src].metric]]
    /\ UNCHANGED <<rank_frame, plan>>

\* Every rank has returned: the trainer moves on.
ReturnOnAllRanks ==
    /\ peers # << >>
    /\ \A i \in DOMAIN peers : peers[i].pc = "returned"
    /\ plan' = NoPlan
    /\ peers' = << >>
    /\ UNCHANGED rank_frame

\* Before construction, in a job whose ranks are all followed.
InitRanks ==
    /\ cfg \in RankConfigs
    /\ trainer = [accumulate_grad_batches |-> 1, precision |-> "bf16"]
    /\ parallel_state = [data_parallel_world_size |-> 1, pipeline_rank |-> 0]
    /\ phase = "new"
    /\ model = [is_list |-> FALSE, len |-> 0]
    /\ megatron_amp_o2 = FALSE
    /\ autocast_dtype = "unset"
    /\ num_micro_batches = 0
    /\ batch_size_on_rank = 0
    /\ kind = "none"
    /\ pc = "idle"
    /\ current_batch_size = 0
    /\ batch_for_pipeline = "unset"
    /\ fwd_bwd_function = "unset"
    /\ custom_sync_context_handler = "unset"
    /\ forward_only = FALSE
    /\ grad_scaler = "unset"
    /\ micro_batches_done = 0
    /\ error = "none"
    /\ calls = << >>
    /\ losses_reduced_per_micro_batch = << >>
    /\ loss_mean = Unset
    /\ loss_with_batch_size_list = << >>
    /\ outputs = << >>
    /\ averaged_metrics = Unset
    /\ broadcast_src = None
    /\ seed = 1
    /\ stage_state = << >>
    /\ virtual_pipeline_rank = 0
    /\ checkpoint = TrainerCheckpoint
    /\ saved = {}
    /\ hook = NoHook
    /\ plan = NoPlan
    /\ peers = << >>
    /\ params = << >>
    /\ all_reduces = << >>

NextRanks ==
    \/ Construct
    \/ Setup
    \/ StartTrainOnAllRanks
    \/ \E steps \in 0 .. MaxValidationSteps : StartEpochEndOnAllRanks(steps)
    \/ \E i \in 1 .. MaxPipeline : ScheduleOnRank(i)
    \/ \E i \in 1 .. MaxPipeline : SyncSequenceParallelOnRank(i)
    \/ \E i \in 1 .. MaxPipeline : SyncGradientsOnRank(i)
    \/ \E i \in 1 .. MaxPipeline : EpochEndOnRank(i)
    \/ BroadcastOnAllRanks
    \/ ReturnOnAllRanks

\* Every rank is a running process: a step it can take is taken, and a
\* collective every rank has called completes.
FairRanks ==
    /\ \A i \in 1 .. MaxPipeline :
          /\ WF_vars(ScheduleOnRank(i))
          /\ WF_vars(SyncSequenceParallelOnRank(i))
          /\ WF_vars(SyncGradientsOnRank(i))
          /\ WF_vars(EpochEndOnRank(i))
    /\ WF_vars(BroadcastOnAllRanks)
    /\ WF_vars(ReturnOnAllRanks)

SpecRanks == InitRanks /\ [][NextRanks]_vars /\ FairRanks

\* ------------------------------------- sequence-parallel gradient buffers
\* A gradient element is kept as the set of contributions summed into it:
\* <<r, buffer, s, p, e>> is element e of `buffer` of parameter p of module
\* s as rank r of the tensor-parallel group computed it (this rank is 0).
\* Parameter p holds p elements, so the place of a parameter in a flat
\* buffer depends on the parameters before it.
Tensor(r, buffer, s, p) == [e \in 1 .. p |-> {<<r, buffer, s, p, e>>}]

\* The parameters of n modules after a backward pass; marks[s][p] is the
\* sequence_parallel_enabled attribute of parameter p of module s.
FreshParams(n, marks) ==
    [s \in 1 .. n |->
        [p \in 1 .. MaxParams |->
            [sequence_parallel_enabled |-> marks[s][p],
             grad |-> Tensor(0, "grad", s, p),
             main_grad |-> Tensor(0, "main_grad", s, p)]]]

\* The buffer read whatever megatron_amp_o2 is.
GradBuffer_AlwaysGrad(o2) == "grad"

\* _append_module_grads: param.main_grad under megatron_amp_o2, else
\* param.grad.
GradBuffer(o2) == IF o2 THEN "main_grad" ELSE "grad"

\* _append_module_grads(module s): the marked parameters of the module, in
\* the order of module.parameters().
AppendModuleGrads(s) ==
    SelectSeq([p \in 1 .. Len(params[s]) |-> <<s, p>>],
              LAMBDA x : params[x[1]][x[2]].sequence_parallel_enabled)

\* allreduce_sequence_parallel_gradients: the list `grads`, over every
\* module of a list model or over the one module.
Grads ==
    IF IsInstanceList(model)
    THEN Flatten([s \in 1 .. Len(params) |-> AppendModuleGrads(s)])
    ELSE AppendModuleGrads(1)

\* torch._utils._flatten_dense_tensors: the tensors one after the other.
FlattenDenseTensors(tensors) == Flatten(tensors)

RECURSIVE UnflattenDenseTensors(_, _)
\* torch._utils._unflatten_dense_tensors(flat, tensors): flat cut into
\* pieces of the sizes of `tensors`, in order.
UnflattenDenseTensors(flat, tensors) ==
    IF tensors = << >>
    THEN << >>
    ELSE <<SubSeq(flat, 1, Len(Head(tensors)))>>
            \o UnflattenDenseTensors(
                   SubSeq(flat, Len(Head(tensors)) + 1, Len(flat)), Tail(tensors))

\* The tensor-parallel group: this rank and its peers.
TensorGroup(c) == 0 .. (CfgGet(c.tensor_model_parallel_size, 1) - 1)

\* The coalesced buffer of rank r of the group: the peers run the same
\* code on the same parameters, each with gradients of its own.
CoalescedOn(r, grads, o2) ==
    FlattenDenseTensors(
        [k \in 1 .. Len(grads) |->
            IF r = 0
            THEN params[grads[k][1]][grads[k][2]][GradBuffer(o2)]
            ELSE Tensor(r, GradBuffer(o2), grads[k][1], grads[k][2])])

\* torch.distributed.all_reduce over the tensor-parallel group: every
\* element becomes the sum of the element at the same place on every rank.
AllReduce(grads, o2, c) ==
    LET buffers == [r \in TensorGroup(c) |-> CoalescedOn(r, grads, o2)]
    IN  [k \in 1 .. Len(buffers[0]) |->
            UNION {buffers[r][k] : r \in TensorGroup(c)}]

\* The marks a model of n modules can carry: the layer norms of every
\* model built with sequence_parallel are marked, so at least one is.
Marks(n) ==
    {m \in [1 .. n -> [1 .. MaxParams -> BOOLEAN]] :
        \E s \in 1 .. n : \E p \in 1 .. MaxParams : m[s][p]}

\* The modules, as built with their marks, have run their backward passes.
MarkSequenceParallel ==
    /\ phase = "ready" /\ params = << >>
    /\ model.len > 0
    /\ \E marks \in Marks(model.len) : params' = FreshParams(model.len, marks)
    /\ UNCHANGED <<object_vars, phase, built_vars, setup_vars, step_vars,
                   result_vars, stage_vars, hook_vars, peer_vars, all_reduces>>

\* allreduce_sequence_parallel_gradients, called by training_step when the
\* sequence-parallel all-reduce is due.
AllreduceSequenceParallelGradients ==
    /\ params # << >> /\ all_reduces = << >>
    /\ SequenceParallelDue(cfg)
    /\ LET grads == Grads
           buffer == GradBuffer(megatron_amp_o2)
           tensors == [k \in 1 .. Len(grads) |->
                          params[grads[k][1]][grads[k][2]][buffer]]
           coalesced == AllReduce(grads, megatron_amp_o2, cfg)
           synced == UnflattenDenseTensors(coalesced, tensors)
       IN  /\ all_reduces' = Append(all_reduces,
                                    [group |-> "tensor_model_parallel",
                                     numel |-> Len(coalesced)])
           /\ params' =
                 [s \in 1 .. Len(params) |->
                     [p \in 1 .. Len(params[s]) |->
                         IF \E k \in 1 .. Len(grads) : grads[k] = <<s, p>>
                         THEN [params[s][p] EXCEPT
                                 ![buffer] =
                                    synced[CHOOSE k \in 1 .. Len(grads) :
                                              grads[k] = <<s, p>>]]
                         ELSE params[s][p]]]
    /\ UNCHANGED <<object_vars, phase, built_vars, setup_vars, step_vars,
                   result_vars, stage_vars, hook_vars, peer_vars>>

\* Configurations with sequence parallelism over a tensor-parallel group.
GradientConfigs ==
    [pipeline_model_parallel_size : {None, 2},
     virtual_pipeline_model_parallel_size : {None} \cup (1 .. MaxStages),
     tensor_model_parallel_size : 2 .. (MaxTensor + 1),
     sequence_parallel : {TRUE},
     megatron_amp_O2 : BOOLEAN,
     with_distributed_adam : {FALSE},
     precision : {"bf16"},
     micro_batch_size : {1},
     global_batch_size : {1},
     drop_last : {FALSE}]

\* Before construction, in a job with sequence parallelism.
InitGradients ==
    /\ cfg \in GradientConfigs
    /\ trainer = [accumulate_grad_batches |-> 1, precision |-> "bf16"]
    /\ parallel_state = [data_parallel_world_size |-> 1, pipeline_rank |-> 0]
    /\ phase = "new"
    /\ model = [is_list |-> FALSE, len |-> 0]
    /\ megatron_amp_o2 = FALSE
    /\ autocast_dtype = "unset"
    /\ num_micro_batches = 0
    /\ batch_size_on_rank = 0
    /\ kind = "none"
    /\ pc = "idle"
    /\ current_batch_size = 0
    /\ batch_for_pipeline = "unset"
    /\ fwd_bwd_function = "unset"
    /\ custom_sync_context_handler = "unset"
    /\ forward_only = FALSE
    /\ grad_scaler = "unset"
    /\ micro_batches_done = 0
    /\ error = "none"
    /\ calls = << >>
    /\ losses_reduced_per_micro_batch = << >>
    /\ loss_mean = Unset
    /\ loss_with_batch_size_list = << >>
    /\ outputs = << >>
    /\ averaged_metrics = Unset
    /\ broadcast_src = None
    /\ seed = 1
    /\ stage_state = << >>
    /\ virtual_pipeline_rank = 0
    /\ checkpoint = TrainerCheckpoint
    /\ saved = {}
    /\ hook = NoHook
    /\ plan = NoPlan
    /\ peers = << >>
    /\ params = << >>
    /\ all_reduces = << >>

NextGradients ==
    \/ Construct
    \/ Setup
    \/ MarkSequenceParallel
    \/ AllreduceSequenceParallelGradients

SpecGradients == InitGradients /\ [][NextGradients]_vars

\* ------------------------------------------------------ reading the state
\* Number of times call x occurs in the sequence s.
Count(s, x) == Cardinality({i \in DOMAIN s : s[i] = x})

\* Every occurrence of y in s has an occurrence of x before it.
Precedes(s, x, y) ==
    \A j \in DOMAIN s : s[j] = y => \E i \in 1 .. (j - 1) : s[i] = x

\* The step has selected its schedule (it got past the batch preparation).
ScheduleSelected == kind # "none" /\ fwd_bwd_function # "unset"

\* training_step has made every call it makes after the schedule.
TrainSynced == kind = "train" /\ pc \in {"broadcast", "returned", "stepped"}

\* training_step has returned to the trainer.
TrainReturned == kind = "train" /\ pc \in {"returned", "stepped"}

StandardOptimizer == ~cfg.with_distributed_adam

GBS_NotDivisible ==
    cfg.global_batch_size
        % (cfg.micro_batch_size * parallel_state.data_parallel_world_size) # 0

\* ------------------------------------------------------------------ claims

\* C1: with pipeline_model_parallel_size <= 1, or unset, every step selects
\* the no-pipelining strategy, whatever the virtual size and other options.
C1_NoPipelining ==
    (cfg.pipeline_model_parallel_size = None
     \/ cfg.pipeline_model_parallel_size <= 1)
    => /\ fwd_bwd_function \in {"unset", NO_PIPELINING}
       /\ pc \in {"schedule", "returned"} => fwd_bwd_function = NO_PIPELINING

C1_Witness ==
    /\ pc = "returned"
    /\ cfg.pipeline_model_parallel_size = None
    /\ cfg.virtual_pipeline_model_parallel_size = 1
    /\ fwd_bwd_function = NO_PIPELINING

\* C2: with pipeline_model_parallel_size > 1 every step selects
\* pipelining-without-interleaving when the virtual size is unset and
\* pipelining-with-interleaving when it is set; the strategy a step holds is
\* always one of the three and is the same in every step of a run.
C2_PipeliningChoice ==
    /\ ScheduleSelected => fwd_bwd_function \in Strategies
    /\ pc \in {"schedule", "returned"} => ScheduleSelected
    /\ (ScheduleSelected /\ cfg.pipeline_model_parallel_size # None
        /\ cfg.pipeline_model_parallel_size > 1)
       => fwd_bwd_function =
             IF cfg.virtual_pipeline_model_parallel_size = None
             THEN WITHOUT_INTERLEAVING
             ELSE WITH_INTERLEAVING

C2_Witness ==
    /\ pc = "returned"
    /\ cfg.pipeline_model_parallel_size = 2
    /\ cfg.virtual_pipeline_model_parallel_size = 1
    /\ fwd_bwd_function = WITH_INTERLEAVING

\* C3 (as claimed): whenever a virtual size is set (any non-null value) and
\* megatron_amp_O2 is disabled, construction fails, so no step ever holds the
\* interleaving strategy with megatron_amp_O2 disabled.
C3_VirtualNeedsO2 ==
    (cfg.virtual_pipeline_model_parallel_size # None /\ ~cfg.megatron_amp_O2)
    => /\ phase \in {"new", "config_error"}
       /\ fwd_bwd_function # WITH_INTERLEAVING

\* C4: in a train step with the standard optimizer and megatron_amp_O2, the
\* main-gradient all-reduce is called exactly once, after the schedule has
\* returned (never while it runs its micro-batches), the full gradient
\* all-reduce is never called, and without sequence_parallel there is no
\* sequence-parallel all-reduce.
C4_MainGradsOnce ==
    (kind = "train" /\ StandardOptimizer /\ megatron_amp_o2)
    => /\ Count(calls, "allreduce_gradients") = 0
       /\ Count(calls, "allreduce_main_grads") <= 1
       /\ Precedes(calls, "schedule_returned", "allreduce_main_grads")
       /\ TrainSynced => Count(calls, "allreduce_main_grads") = 1
       /\ ~cfg.sequence_parallel
          => Count(calls, "allreduce_sequence_parallel_gradients") = 0

C4_Witness ==
    /\ kind = "train" /\ pc = "returned"
    /\ StandardOptimizer /\ megatron_amp_o2
    /\ cfg.pipeline_model_parallel_size = None
    /\ ~cfg.sequence_parallel
    /\ num_micro_batches = 2
    /\ Count(calls, "forward_backward") = 2
    /\ Count(calls, "allreduce_main_grads") = 1

\* C5: in a train step with the distributed optimizer neither the
\* main-gradient nor the full gradient all-reduce is called, whatever
\* megatron_amp_O2 and sequence_parallel are.
C5_DistributedNoExtra ==
    (kind = "train" /\ cfg.with_distributed_adam)
    => /\ Count(calls, "allreduce_main_grads") = 0
       /\ Count(calls, "allreduce_gradients") = 0

C5_Witness ==
    /\ kind = "train" /\ pc = "returned"
    /\ cfg.with_distributed_adam
    /\ megatron_amp_o2
    /\ cfg.sequence_parallel
    /\ Count(calls, "schedule_returned") = 1

\* C6: in a train step with the standard optimizer and megatron_amp_O2
\* disabled, for both values of sequence_parallel, the schedule gets no
\* gradient-sync suppression context, the full gradient all-reduce is called
\* exactly once, after the schedule has returned, and the main-gradient
\* all-reduce is never called.
C6_FullGradsOnce ==
    (kind = "train" /\ StandardOptimizer /\ ~megatron_amp_o2)
    => /\ ScheduleSelected => custom_sync_context_handler = "None"
       /\ Count(calls, "allreduce_main_grads") = 0
       /\ Count(calls, "allreduce_gradients") <= 1
       /\ Precedes(calls, "schedule_returned", "allreduce_gradients")
       /\ TrainSynced => Count(calls, "allreduce_gradients") = 1

C6_Witness ==
    /\ kind = "train" /\ pc = "returned"
    /\ StandardOptimizer /\ ~megatron_amp_o2
    /\ ~cfg.sequence_parallel
    /\ custom_sync_context_handler = "None"
    /\ Count(calls, "allreduce_gradients") = 1

\* C7: a train step calls the sequence-parallel all-reduce exactly once when
\* sequence_parallel is enabled and tensor_model_parallel_size > 1 and never
\* otherwise, whatever the optimizer mode and megatron_amp_O2 are.
C7_SequenceParallelOnce ==
    LET due == /\ cfg.sequence_parallel
               /\ cfg.tensor_model_parallel_size # None
               /\ cfg.tensor_model_parallel_size > 1
        n == Count(calls, "allreduce_sequence_parallel_gradients")
    IN  /\ kind # "none" => n <= (IF due /\ kind = "train" THEN 1 ELSE 0)
        /\ TrainSynced => n = (IF due THEN 1 ELSE 0)

C7_Witness ==
    /\ kind = "train" /\ pc = "returned"
    /\ cfg.with_distributed_adam
    /\ cfg.sequence_parallel
    /\ cfg.tensor_model_parallel_size = 2
    /\ Count(calls, "allreduce_sequence_parallel_gradients") = 1
    /\ Count(calls, "allreduce_main_grads") = 0
    /\ Count(calls, "allreduce_gradients") = 0

\* C8: in a train step every gradient-synchronisation collective is called
\* only after the schedule has returned, and all that are due (the
\* sequence-parallel one, and the main or full one under the standard
\* optimizer) have been called when training_step returns, hence before the
\* trainer steps the optimizer.
SyncCollectives ==
    {"allreduce_sequence_parallel_gradients", "allreduce_main_grads",
     "allreduce_gradients"}

C8_SyncBetweenScheduleAndReturn ==
    kind = "train"
    => /\ \A c \in SyncCollectives : Precedes(calls, "schedule_returned", c)
       /\ \A j \in DOMAIN calls :
             calls[j] = "optimizer_step"
             => \A i \in DOMAIN calls : calls[i] \in SyncCollectives => i < j
       /\ TrainReturned
          => /\ Count(calls, "schedule_returned") = 1
             /\ (cfg.sequence_parallel
                 /\ CfgGet(cfg.tensor_model_parallel_size, 1) > 1)
                => Count(calls, "allreduce_sequence_parallel_gradients") = 1
             /\ StandardOptimizer
                => Count(calls, "allreduce_main_grads")
                   + Count(calls, "allreduce_gradients") = 1

C8_Witness ==
    /\ kind = "train" /\ pc = "stepped"
    /\ StandardOptimizer
    /\ calls[Len(calls)] = "optimizer_step"
    /\ Count(calls, "allreduce_sequence_parallel_gradients") = 1
    /\ Count(calls, "allreduce_main_grads") = 1

\* C9 (as claimed): in every step kind, a batch with fewer samples than the
\* expected per-rank batch size, received while dropping incomplete batches
\* is not enabled, ends the step with a batch-shape error before the
\* schedule is invoked.
C9_UndersizedBatchFails ==
    (/\ kind # "none"
     /\ current_batch_size
           < cfg.global_batch_size \div parallel_state.data_parallel_world_size
     /\ ~cfg.drop_last)
    => /\ pc = "raised"
       /\ error = "NotImplementedError"
       /\ fwd_bwd_function = "unset"

\* C10 (as claimed): when global_batch_size is not a multiple of
\* micro_batch_size x data_parallel_world_size, partitioning fails with a
\* size-mismatch error and no step runs the schedule with the rounded-down
\* micro-batch count.
C10_NonDivisibleFails ==
    (GBS_NotDivisible /\ kind # "none")
    => /\ pc = "raised"
       /\ error = "NotImplementedError"
       /\ fwd_bwd_function = "unset"

\* C11 (as claimed): with pipeline depth > 1, in train, validation and test
\* steps, only the rank of the first pipeline stage is given the raw inputs
\* and every other rank is given the null placeholder.
C11_OnlyFirstStageGetsInputs ==
    (ScheduleSelected /\ PipelineWorldSize(cfg) > 1)
    => batch_for_pipeline =
          IF IsPipelineFirstStage(cfg, parallel_state) THEN "inputs" ELSE "None"

\* C11 (amended): with pipeline depth > 1, a train step gives the raw inputs
\* to the ranks of the first and of the last pipeline stage and the null
\* placeholder to the ranks of intermediate stages; a validation or test
\* step gives the raw inputs to every rank.
C11_InputsByStage ==
    (ScheduleSelected /\ PipelineWorldSize(cfg) > 1)
    => batch_for_pipeline =
          IF kind = "train"
             /\ parallel_state.pipeline_rank # 0
             /\ parallel_state.pipeline_rank # cfg.pipeline_model_parallel_size - 1
          THEN "None"
          ELSE "inputs"

C11_Witness ==
    /\ kind = "train" /\ pc = "returned"
    /\ cfg.pipeline_model_parallel_size = 3
    /\ parallel_state.pipeline_rank = 1
    /\ batch_for_pipeline = "None"

\* ------------------------------------------------- reading metric values
\* Loss values a micro-batch may have.
LossValues == {2, 4}

\* The micro-batches whose losses the validation outputs hold.
LossIds(outs) ==
    {outs[i][j][1] : i \in DOMAIN outs, j \in 1 .. num_micro_batches}

RECURSIVE Numerator(_, _)
\* The sum of weight x loss over the terms, the losses being v.
Numerator(terms, v) ==
    IF terms = << >>
    THEN 0
    ELSE v[Head(terms)[1]] * Head(terms)[2] + Numerator(Tail(terms), v)

\* Metrics a and b are the same number when the losses are v.
SameValue(a, b, v) ==
    Numerator(a.terms, v) * b.div = Numerator(b.terms, v) * a.div

\* validation_epoch_end has broadcast the metric of a non-empty epoch.
EpochEnded == pc = "epoch_end" /\ outputs # << >>

\* C12 (as claimed): on a rank of the last pipeline stage the metric of
\* validation_epoch_end is sum(loss x size) / sum(size) over every
\* (loss, batch_size) pair of every validation step of the epoch, whatever
\* the losses are.
C12_WeightedAverageOfAllPairs ==
    (EpochEnded /\ IsPipelineLastStage(cfg, parallel_state)) =>
        \A v \in [LossIds(outputs) -> LossValues] :
            SameValue(averaged_metrics, GetAverageMetric(outputs), v)

C20_MeanOrZero ==
    /\ (kind = "train" /\ pc \in {"sync_sp", "sync_grads", "broadcast"}) =>
          IF losses_reduced_per_micro_batch # << >>
          THEN /\ loss_mean.div = Len(losses_reduced_per_micro_batch)
               /\ Len(loss_mean.terms) = Len(losses_reduced_per_micro_batch)
               /\ \A i \in DOMAIN loss_mean.terms :
                     loss_mean.terms[i] = <<losses_reduced_per_micro_batch[i], 1>>
          ELSE loss_mean = ZeroPlaceholder
    /\ TrainReturned => (loss_mean # Unset /\ loss_mean.div > 0)

\* A rank of the last stage holds the mean of two micro-batch losses
\* before the broadcast.
C20_Witness ==
    /\ kind = "train" /\ pc = "broadcast"
    /\ Len(losses_reduced_per_micro_batch) = 2
    /\ loss_mean.div = 2

\* The calls training_step makes after call c.
CallsAfter(c) ==
    CASE c = "fwd_bwd_function" -> SyncCollectives \cup {"broadcast"}
      [] c = "allreduce_sequence_parallel_gradients" ->
            {"allreduce_main_grads", "allreduce_gradients", "broadcast"}
      [] c \in {"allreduce_main_grads", "allreduce_gradients"} -> {"broadcast"}
      [] OTHER -> {}

\* The schedule or a collective of a train step has failed.
TrainCallFailed ==
    /\ kind = "train"
    /\ error \in SyncCollectives \cup {"fwd_bwd_function", "broadcast"}

\* C18: once the schedule or a collective of a train step has failed, the
\* step stays raised: training_step has not returned a loss, none of the
\* calls that follow the failed one has been made, the failed call has
\* not been made again, and the optimizer has not stepped.
C18_FailurePropagates ==
    TrainCallFailed =>
        /\ pc = "raised"
        /\ ~TrainReturned
        /\ Count(calls, "schedule_returned") = 0 \/ error # "fwd_bwd_function"
        /\ \A c \in CallsAfter(error) : Count(calls, c) = 0
        /\ Count(calls, error) = 0
        /\ Count(calls, "optimizer_step") = 0

\* The main-gradient all-reduce failed after the schedule and the
\* sequence-parallel all-reduce were done.
C18_Witness ==
    /\ TrainCallFailed
    /\ error = "allreduce_main_grads"
    /\ Count(calls, "forward_backward") = 2
    /\ Count(calls, "allreduce_sequence_parallel_gradients") = 1

\* ------------------------------------------- reading the checkpoint hooks
\* The last hook call was on_save_checkpoint / on_load_checkpoint.
Saved == hook.name = "on_save_checkpoint"
Loaded == hook.name = "on_load_checkpoint"

\* The stage indices of self.model.
StageIndices == 0 .. (model.len - 1)

\* What a loop over all stages records: stage i handled at virtual rank i,
\* in increasing order.
EveryStageInOrder == [i \in 1 .. model.len |-> <<i - 1, i - 1>>]

\* C13 (as claimed): a load into a list model from a checkpoint whose
\* number of stage entries differs from the number of stages ends with an
\* error and leaves every stage's state as it was before the load.
C13_StageCountMismatchFails ==
    (/\ Loaded
     /\ IsInstanceList(model)
     /\ Cardinality(StageKeys(hook.arg)) # model.len)
    => /\ hook.error # "none"
       /\ stage_state = hook.stage_state

\* C14 (as claimed): after a model was saved, loading the checkpoint it
\* wrote into a freshly constructed list model of the same configuration
\* succeeds and makes every stage's state equal to the state of the same
\* stage of the saved model.
C14_RoundTrip ==
    \A s \in saved :
        (/\ Loaded
         /\ IsInstanceList(model)
         /\ hook.arg = checkpoint
         /\ s.cfg = cfg
         /\ hook.stage_state = FreshStages(model.len, seed))
        => /\ hook.error = "none"
           /\ stage_state = s.stage_state

\* C15 (as claimed): on_save_checkpoint on a list model of n stages ends
\* without error having captured stage i at virtual rank i for i = 0..n-1
\* in increasing order; the mapping holds the state of stage i under
\* "model{i}", no other new key, and its other entries as they were.
C15_SaveLayout ==
    (Saved /\ IsInstanceList(model))
    => /\ hook.error = "none"
       /\ hook.events = EveryStageInOrder
       /\ DOMAIN checkpoint =
             DOMAIN hook.arg \cup {ModelKey(i) : i \in StageIndices}
       /\ \A i \in StageIndices : checkpoint[ModelKey(i)] = stage_state[i + 1]
       /\ \A k \in DOMAIN hook.arg : checkpoint[k] = hook.arg[k]

\* C16 (as claimed): on_load_checkpoint on a list model of n stages, given
\* an entry "model{i}" for every stage: when every entry holds exactly the
\* parameter keys of its stage, entry i is loaded into stage i at virtual
\* rank i for i = 0..n-1 and the call ends without error; when an entry
\* misses a key or holds an extra one, the call ends with the strict-mode
\* error.
C16_StrictLoad ==
    (/\ Loaded
     /\ IsInstanceList(model)
     /\ \A i \in StageIndices : ModelKey(i) \in DOMAIN hook.arg)
    => IF \A i \in StageIndices : DOMAIN hook.arg[ModelKey(i)] = ExpectedKeys
       THEN /\ hook.error = "none"
            /\ hook.events = EveryStageInOrder
            /\ \A i \in StageIndices : stage_state[i + 1] = hook.arg[ModelKey(i)]
       ELSE hook.error = "RuntimeError"

\* C17: with no virtual pipeline size configured the model is a single
\* module, and a call of on_save_checkpoint or on_load_checkpoint ends
\* without error and without touching a stage; the checkpoint mapping, the
\* model's state and the virtual rank are as they were before the call.
C17_NoOpWithoutVirtual ==
    (/\ cfg.virtual_pipeline_model_parallel_size = None
     /\ phase \in {"built", "ready"})
    => /\ ~model.is_list
       /\ hook.name # "none" =>
             /\ hook.error = "none"
             /\ hook.events = << >>
             /\ Saved => checkpoint = hook.arg
             /\ stage_state = hook.stage_state
             /\ virtual_pipeline_rank = hook.rank

\* on_load_checkpoint was called on a single-module model with a
\* checkpoint whose entry "model0" differs from the model's state.
C17_Witness ==
    /\ cfg.virtual_pipeline_model_parallel_size = None
    /\ Loaded
    /\ ModelKey(0) \in DOMAIN hook.arg
    /\ stage_state # << >>
    /\ hook.arg[ModelKey(0)] # stage_state[1]

\* ------------------------------------------------- reading the schedule
\* The step has got the schedule's result.
ScheduleDone == kind # "none" /\ pc \in {"sync_sp", "sync_grads", "broadcast",
                                         "returned", "stepped"}

\* What validation_step returns on this rank for the batch of the step: a
\* pair per micro-batch on a rank of the last stage, nothing elsewhere.
ValidationStepResult ==
    IF IsPipelineLastStage(cfg, parallel_state)
    THEN MetricWithBatchSize(
             TerminalLosses(Len(outputs) + 1, num_micro_batches), cfg)
    ELSE << >>

\* C21: a step invokes the selected schedule at most once; a train step
\* always reaches it, with forward_only=False, and every micro-batch then
\* runs forward and backward; a validation or test step whose batch passed
\* the size test reaches it with forward_only=True and every micro-batch
\* runs forward only; a step that got the schedule's result invoked it
\* exactly once.  A returned test step holds what validation_step returns
\* for the same batch and state.
C21_ScheduleOncePerStep ==
    /\ Count(calls, "schedule_returned") <= 1
    /\ kind = "train" =>
          /\ pc # "raised" \/ error # "NotImplementedError"
          /\ fwd_bwd_function = GetFwdBwdFunction(cfg)
          /\ ~forward_only
          /\ Count(calls, "forward") = 0
    /\ (kind \in {"validation", "test"} /\ fwd_bwd_function # "unset") =>
          /\ fwd_bwd_function = GetFwdBwdFunction(cfg)
          /\ forward_only
          /\ Count(calls, "forward_backward") = 0
    /\ ScheduleDone =>
          /\ Count(calls, "schedule_returned") = 1
          /\ Count(calls, "forward") + Count(calls, "forward_backward")
                = num_micro_batches
    /\ (kind \in {"validation", "test"} /\ pc = "returned") =>
          loss_with_batch_size_list = ValidationStepResult

\* A test step on a rank of the last stage has returned the pairs of two
\* forward-only micro-batches.
C21_Witness ==
    /\ kind = "test" /\ pc = "returned"
    /\ Count(calls, "forward") = 2
    /\ Len(loss_with_batch_size_list) = 2

\* ---------------------------------------------- reading the construction
\* __init__ has returned: the model was built (and maybe set up).
Constructed == phase \in {"built", "ready"}

\* C22 (as claimed): construction succeeds only when
\* trainer.accumulate_grad_batches equals 1 and fails with a configuration
\* error for every other value.
C22_AccumulateMustBeOne ==
    /\ Constructed => trainer.accumulate_grad_batches = 1
    /\ (phase # "new" /\ trainer.accumulate_grad_batches # 1) =>
          phase = "config_error"

\* C23: construction succeeds only when the trainer precision is 32, 16 or
\* "bf16", and the compute dtype is then float, half or bfloat16
\* respectively; with any other precision construction ends in a
\* configuration error, so a model that is ready for steps has a defined
\* compute dtype.
C23_PrecisionSelectsDtype ==
    /\ Constructed =>
          /\ trainer.precision \in {"32", "16", "bf16"}
          /\ trainer.precision = "32" => autocast_dtype = "float"
          /\ trainer.precision = "16" => autocast_dtype = "half"
          /\ trainer.precision = "bf16" => autocast_dtype = "bfloat16"
    /\ (phase # "new" /\ trainer.precision \notin {"32", "16", "bf16"}) =>
          phase = "config_error"
    /\ phase = "ready" => autocast_dtype \in {"float", "half", "bfloat16"}

\* A model was set up with the half compute dtype while its configuration
\* names another precision.
C23_Witness ==
    /\ phase = "ready"
    /\ trainer.precision = "16"
    /\ cfg.precision = "64"
    /\ autocast_dtype = "half"

\* C24 (as claimed): after setup the number of micro-batches per rank per
\* step is global_batch_size / (micro_batch_size x data-parallel size), the
\* batch size asked of the loaders is that number x micro_batch_size, and
\* this is the expected batch size (global_batch_size / data-parallel
\* size) validation_step tests a received batch against.
C24_BatchArithmetic ==
    phase = "ready" =>
        /\ num_micro_batches * cfg.micro_batch_size
               * parallel_state.data_parallel_world_size
             = cfg.global_batch_size
        /\ batch_size_on_rank = num_micro_batches * cfg.micro_batch_size
        /\ batch_size_on_rank =
             cfg.global_batch_size \div parallel_state.data_parallel_world_size


\* ---------------------------------------------------------------- C25
\* s is an initial part of t.
IsPrefix(s, t) ==
    /\ Len(s) <= Len(t)
    /\ \A k \in 1 .. Len(s) : s[k] = t[k]

\* The collectives of a train step as the shared configuration gives them.
TrainCollectives ==
    (IF SequenceParallelDue(cfg)
     THEN <<"allreduce_sequence_parallel_gradients">>
     ELSE << >>)
        \o GradSyncCalls(cfg, megatron_amp_o2) \o <<"broadcast">>

\* Every rank has returned from the train step with the collectives of the
\* configuration behind it.
TrainCompletedOnAllRanks ==
    /\ plan.kind = "train"
    /\ \A i \in DOMAIN peers :
          peers[i].pc = "returned" /\ peers[i].calls = TrainCollectives

\* C25: in a train step every rank, whatever its pipeline stage and whether
\* the schedule gave it losses or not, makes the same sequence of
\* collectives, the one the shared configuration gives (the
\* sequence-parallel all-reduce when due, the configured gradient
\* all-reduce, the loss broadcast); no rank makes the broadcast twice or
\* returns without it, and a train step started on all ranks completes on
\* all ranks.
C25_SameCollectivesOnEveryRank ==
    /\ [](plan.kind = "train" =>
            \A i \in DOMAIN peers :
               /\ IsPrefix(peers[i].calls, TrainCollectives)
               /\ Count(peers[i].calls, "broadcast") <= 1
               /\ peers[i].pc = "returned" => peers[i].calls = TrainCollectives
               /\ peers[i].pc = "broadcast" =>
                     peers[i].calls \o <<"broadcast">> = TrainCollectives)
    /\ (plan.kind = "train") ~> TrainCompletedOnAllRanks

\* A train step of three stages has completed with all three collectives
\* on every rank, the first of which got no losses from the schedule.
C25_Witness ==
    /\ TrainCompletedOnAllRanks
    /\ Len(peers) = 3
    /\ Len(TrainCollectives) = 3
    /\ ~IsLastStageRank(1)
    /\ Count(peers[1].calls, "broadcast") = 1


\* ---------------------------------------------------------------- C26
\* C26: in every call of validation_epoch_end every rank, on the last stage
\* or not and whatever outputs it collected, takes part in exactly one
\* metric broadcast: a rank that has returned has made one broadcast, and
\* no rank has returned without it while another rank waits in it.
C26_OneBroadcastEveryCall ==
    plan.kind = "validation" =>
       /\ \A i \in DOMAIN peers :
             /\ Count(peers[i].calls, "broadcast") <= 1
             /\ peers[i].pc = "returned" =>
                   Count(peers[i].calls, "broadcast") = 1
       /\ ~ \E i, j \in DOMAIN peers :
               /\ peers[i].pc = "broadcast"
               /\ peers[j].pc = "returned"
               /\ Count(peers[j].calls, "broadcast") = 0


\* ---------------------------------------------------------------- C27
\* The last position of call x in the sequence s, 0 when it is not there.
LastIndex(s, x) ==
    IF Count(s, x) = 0
    THEN 0
    ELSE CHOOSE i \in DOMAIN s :
            s[i] = x /\ \A j \in DOMAIN s : s[j] = x => j <= i

\* The micro-batches whose backward pass has run since the gradients were
\* last zeroed.
AccumulatedMicroBatches ==
    Cardinality({i \in DOMAIN calls :
                    calls[i] = "forward_backward" /\ i > LastIndex(calls, "zero_grad")})

\* C27: in a train step the gradients are zeroed exactly once, as the first
\* call of the step and so before the schedule; neither the schedule, the
\* collectives nor the trainer's backward and zero-grad hooks zero them
\* again, so when the gradients are synchronized and when the optimizer
\* steps they hold the backward pass of every micro-batch of the step.
C27_ZeroedOnceBeforeSchedule ==
    kind = "train" =>
       /\ Count(calls, "zero_grad") = 1
       /\ calls[1] = "zero_grad"
       /\ AccumulatedMicroBatches = Count(calls, "forward_backward")
       /\ Count(calls, "schedule_returned") = 1 =>
             AccumulatedMicroBatches = num_micro_batches
       /\ Count(calls, "optimizer_step") = 1 =>
             /\ AccumulatedMicroBatches = num_micro_batches
             /\ Precedes(calls, "schedule_returned", "optimizer_step")

\* The optimizer has stepped on the gradients of two micro-batches, after
\* the gradient all-reduce.
C27_Witness ==
    /\ kind = "train" /\ pc = "stepped"
    /\ AccumulatedMicroBatches = 2
    /\ Count(calls, "allreduce_gradients") = 1
    /\ calls[Len(calls)] = "optimizer_step"


\* ---------------------------------------------------------------- C28
\* C28: after on_save_checkpoint or on_load_checkpoint on a model with
\* several virtual stages the active virtual rank is 0, whether the call
\* returned or ended with an error at one of the stages.
C28_VirtualRankResetToZero ==
    (/\ hook.name # "none"
     /\ IsInstanceList(model)
     /\ model.len > 1)
    => virtual_pipeline_rank = 0


\* ---------------------------------------------------------------- C29
\* The suppression context of each of the four cases of the configuration.
SuppressionCase ==
    CASE cfg.with_distributed_adam /\ megatron_amp_o2 ->
            "no_sync(greedy_grad_copy=True)"
      [] cfg.with_distributed_adam /\ ~megatron_amp_o2 ->
            "no_sync(greedy_grad_copy=False)"
      [] ~cfg.with_distributed_adam /\ megatron_amp_o2 /\ ~cfg.sequence_parallel ->
            "no_sync"
      [] OTHER -> "None"

\* C29: the gradient-sync suppression context of a train step is the one
\* of its case (distributed optimizer with megatron_amp_O2, without it,
\* standard optimizer with megatron_amp_O2 and no sequence_parallel, none
\* otherwise) from the moment the schedule is selected to the end of the
\* step, and a step of the standard optimizer that suppressed the sync
\* makes the main-gradient all-reduce once, after the schedule returned.
C29_SuppressionCases ==
    (kind = "train" /\ ScheduleSelected)
    => /\ custom_sync_context_handler = SuppressionCase
       /\ (StandardOptimizer /\ custom_sync_context_handler # "None")
          => /\ Count(calls, "allreduce_main_grads") <= 1
             /\ Precedes(calls, "schedule_returned", "allreduce_main_grads")
             /\ TrainSynced => Count(calls, "allreduce_main_grads") = 1

\* A step of the standard optimizer with megatron_amp_O2 and
\* sequence_parallel got no suppression context; it has made its calls.
C29_Witness ==
    /\ kind = "train" /\ pc = "returned"
    /\ StandardOptimizer /\ megatron_amp_o2 /\ cfg.sequence_parallel
    /\ custom_sync_context_handler = "None"
    /\ Count(calls, "allreduce_main_grads") = 1


\* ---------------------------------------------------------------- C30
\* The value of element e of `buffer` of parameter p of module s after the
\* all-reduce: the contribution of every rank of the tensor-parallel group
\* for that very element.
ReducedElement(buffer, s, p, e) ==
    {<<r, buffer, s, p, e>> : r \in TensorGroup(cfg)}

\* The number of marked parameters of the model.
MarkedCount ==
    Cardinality({x \in (1 .. Len(params)) \X (1 .. MaxParams) :
                    params[x[1]][x[2]].sequence_parallel_enabled})

\* C30: allreduce_sequence_parallel_gradients issues exactly one
\* all-reduce, over the tensor-parallel group, however many parameters of
\* however many modules are marked; afterwards every element of the
\* gradient buffer of a marked parameter (main_grad under megatron_amp_O2,
\* grad otherwise) holds the sum over the group of that same element, and
\* every other buffer holds what it held before.
C30_OneAllReducePerCall ==
    /\ Len(all_reduces) <= 1
    /\ all_reduces # << >> =>
          /\ all_reduces[1].group = "tensor_model_parallel"
          /\ \A s \in 1 .. Len(params) : \A p \in 1 .. MaxParams :
                LET used == IF megatron_amp_o2 THEN "main_grad" ELSE "grad"
                    other == IF megatron_amp_o2 THEN "grad" ELSE "main_grad"
                    param == params[s][p]
                IN  /\ param[other] = Tensor(0, other, s, p)
                    /\ param.sequence_parallel_enabled =>
                          \A e \in 1 .. p :
                             param[used][e] = ReducedElement(used, s, p, e)
                    /\ ~param.sequence_parallel_enabled =>
                          param[used] = Tensor(0, used, s, p)

\* One all-reduce has synchronized the main gradients of three marked
\* parameters of two modules and left an unmarked one alone.
C30_Witness ==
    /\ Len(all_reduces) = 1
    /\ megatron_amp_o2
    /\ Len(params) = 2
    /\ MarkedCount = 3
    /\ ~params[1][2].sequence_parallel_enabled
    /\ params[2][2].sequence_parallel_enabled
    /\ params[2][2].main_grad[2] = ReducedElement("main_grad", 2, 2, 2)


\* ---------------------------------------------------------------- C31
\* C31: a validation or test step makes no zero_grad and none of the
\* sequence-parallel, main-gradient and full gradient all-reduces, and
\* hands the schedule neither a gradient scaler nor a gradient-sync
\* suppression context; after the schedule it returns.
C31_NoGradientSyncOutsideTrain ==
    kind \in {"validation", "test"}
    => /\ Count(calls, "zero_grad") = 0
       /\ \A c \in SyncCollectives : Count(calls, c) = 0
       /\ Count(calls, "forward_backward") = 0
       /\ Count(calls, "optimizer_step") = 0
       /\ pc \in {"schedule", "returned", "raised"}
       /\ ScheduleSelected =>
             /\ grad_scaler = "None"
             /\ custom_sync_context_handler = "None"

\* A validation step under precision 16, the distributed optimizer and
\* sequence parallelism has returned after two forward passes.
C31_Witness ==
    /\ kind = "validation" /\ pc = "returned"
    /\ cfg.precision = "16"
    /\ cfg.with_distributed_adam
    /\ SequenceParallelDue(cfg)
    /\ Count(calls, "forward") = 2
    /\ grad_scaler = "None"


\* ---------------------------------------------------------------- C32
\* C32: in every step of a constructed model that has selected its
\* schedule, self.model is a list of virtual-stage modules exactly when the
\* schedule is pipelining with interleaving; the no-pipelining and the
\* pipelining-without-interleaving schedules get a single module.
C32_ListIffInterleaving ==
    ScheduleSelected
    => (IsInstanceList(model) <=> fwd_bwd_function = WITH_INTERLEAVING)


\* ---------------------------------------------------------------- C33
\* The rank hosts neither the first nor the last pipeline stage.
IntermediateStage ==
    /\ ~IsPipelineFirstStage(cfg, parallel_state)
    /\ ~IsPipelineLastStage(cfg, parallel_state)

\* C33: in a step that has selected its schedule, whatever the active
\* virtual rank, the forward-and-loss callback reads elements of the batch
\* only on a rank the step gave a batch to; a rank given None is an
\* intermediate stage of a pipeline deeper than 1, its callback passes None
\* inputs to the model and no read of None ever fails the schedule; with a
\* pipeline depth of 1 the rank is given a batch.
C33_BatchReadOnlyWhereSupplied ==
    ScheduleSelected
    => /\ error # "TypeError"
       /\ PipelineWorldSize(cfg) = 1 => batch_for_pipeline = "inputs"
       /\ \A v \in VirtualRanks :
             /\ ReadsBatch(cfg, parallel_state, v) => batch_for_pipeline = "inputs"
             /\ batch_for_pipeline = "None" =>
                   /\ ModelInputs(cfg, parallel_state, v) = "None"
                   /\ IntermediateStage
                   /\ PipelineWorldSize(cfg) > 1

\* A train step on the intermediate stage of a pipeline of three got no
\* batch and has run its two micro-batches.
C33_Witness ==
    /\ kind = "train" /\ pc = "returned"
    /\ PipelineWorldSize(cfg) = 3
    /\ parallel_state.pipeline_rank = 1
    /\ batch_for_pipeline = "None"
    /\ Count(calls, "forward_backward") = 2

====
